---- MODULE Spec2Model ----
(***************************************************************************)
(* A model of the platform resource manager's decision core:               *)
(*   prm/container.py  - Container: per-task metric derivation, history,   *)
(*                       bin-based and TDP contention detection            *)
(*   prm/allocator.py  - ResourceAllocator: the per-cycle allocate() loop, *)
(*                       task bookkeeping, contender attribution and the   *)
(*                       dispatch of contention flags to the controllers   *)
(*                                                                         *)
(* Python floats are modelled as exact rationals [n, d] (d > 0, lowest     *)
(* terms), so that divisions, means and comparisons are those of the code  *)
(* up to floating-point rounding.  A Python exception is modelled as an    *)
(* outcome of the operation that raises it, together with the part of the  *)
(* state the operation had already changed when it raised.                 *)
(***************************************************************************)
EXTENDS Integers, Sequences, FiniteSets, TLC

\* ------------------------------------------------------------------------
\* Rational arithmetic (the float arithmetic of the code, without rounding)
\* ------------------------------------------------------------------------

Abs(x) == IF x < 0 THEN -x ELSE x

RECURSIVE Gcd(_, _)
Gcd(a, b) == IF b = 0 THEN a ELSE Gcd(b, a % b)

\* The rational n/d in lowest terms with a positive denominator (d # 0).
Rat(n, d) ==
    LET g == Gcd(Abs(n), Abs(d))
        s == IF d < 0 THEN -1 ELSE 1
    IN  [n |-> s * (n \div g), d |-> s * (d \div g)]

RInt(i) == [n |-> i, d |-> 1]

RZero == RInt(0)

RAdd(a, b) ==
    LET g == Gcd(a.d, b.d)
    IN  Rat(a.n * (b.d \div g) + b.n * (a.d \div g), a.d * (b.d \div g))

RNeg(a) == [n |-> -a.n, d |-> a.d]

RSub(a, b) == RAdd(a, RNeg(b))

\* Factors are cancelled crosswise before multiplying, to keep the integers small.
RMul(a, b) ==
    LET g1 == Gcd(Abs(a.n), b.d)
        g2 == Gcd(Abs(b.n), a.d)
    IN  Rat((a.n \div g1) * (b.n \div g2), (a.d \div g2) * (b.d \div g1))

\* a / b for b # 0 (the callers test for a zero divisor, as Python raises on it).
RDiv(a, b) == RMul(a, Rat(b.d, b.n))

RLt(a, b) == a.n * b.d < b.n * a.d

RLe(a, b) == a.n * b.d <= b.n * a.d

RGt(a, b) == RLt(b, a)

RGe(a, b) == RLe(b, a)

RIsZero(a) == a.n = 0

\* ------------------------------------------------------------------------
\* prm/container.py : Container
\* ------------------------------------------------------------------------

\* Keys of Container.metrics (prm.analyze.analyzer.Metric).
CYC == "cycle"
INST == "instruction"
L3MISS == "cache_miss"
L3OCC == "cache_occupancy"
MB == "memory_bandwidth"
CPI == "cycles_per_instruction"
L3MPKI == "cache_miss_per_kilo_instruction"
NF == "normalized_frequency"
UTIL == "cpu_utilization"

MetricKeys == {CYC, INST, L3MISS, L3OCC, MB, CPI, L3MPKI, NF, UTIL}

\* Contended resources (owca.detectors.ContendedResource).
LLC == "LLC"
MEMORY_BW == "MEMORY_BW"
TDP == "TDP"
UNKN == "UNKNOWN"
CPUS == "CPUS"

\* An empty dict; also what stands for the None of Container.measurements
\* (both are falsy in `if self.measurements`).
EmptyDict == <<>>

\* The default of Container.__init__'s history_depth parameter.
DefaultHistoryDepth == 5

\* Container.__init__(cid, history_depth)
Container(cid, history_depth) ==
    [cid |-> cid,
     metrics |-> EmptyDict,
     measurements |-> EmptyDict,
     timestamp |-> 0,
     total_llc_occu |-> 0,
     llc_cnt |-> 0,
     history_depth |-> history_depth + 1,
     metrics_history |-> <<>>]

\* deque([], maxlen).append(x): a push onto a full deque drops the oldest entry.
DequeAppend(dq, maxlen, x) ==
    IF maxlen = 0 THEN dq
    ELSE IF Len(dq) < maxlen THEN Append(dq, x)
    ELSE Append(SubSeq(dq, 2, Len(dq)), x)

\* Container._update_metrics_history
update_metrics_history(con) ==
    [con EXCEPT !.metrics_history =
        DequeAppend(con.metrics_history, con.history_depth, con.metrics)]

RECURSIVE SumColumn(_, _, _)
SumColumn(hist, columnname, upto) ==
    IF upto = 0 THEN RZero
    ELSE RAdd(SumColumn(hist, columnname, upto - 1), hist[upto][columnname])

\* A history delta that takes the mean over every entry, the latest included.
HistoryDeltaMeanOfAll(con, columnname) ==
    LET length == Len(con.metrics_history)
    IN  IF length = 0 THEN RZero
        ELSE RSub(con.metrics_history[length][columnname],
                  RDiv(SumColumn(con.metrics_history, columnname, length),
                       RInt(length)))

\* Container._get_history_delta_by_Type
get_history_delta_by_Type(con, columnname) ==
    LET length == Len(con.metrics_history)
    IN  IF length = 0 THEN RZero
        ELSE IF length = 1 THEN con.metrics_history[length][columnname]
        ELSE RSub(con.metrics_history[length][columnname],
                  RDiv(SumColumn(con.metrics_history, columnname, length - 1),
                       RInt(length - 1)))

\* Container.get_llcoccupany_delta
get_llcoccupany_delta(con) == get_history_delta_by_Type(con, L3OCC)

\* Container.get_freq_delta
get_freq_delta(con) == get_history_delta_by_Type(con, NF)

\* Container.get_latest_mbt
get_latest_mbt(con) ==
    IF MB \notin DOMAIN con.metrics THEN RZero ELSE con.metrics[MB]

\* dict item assignment: d[k] = v
DictSet(d, k, v) == [x \in (DOMAIN d) \cup {k} |-> IF x = k THEN v ELSE d[x]]

\* A raw counter snapshot of one task (owca Measurements), keyed by MetricName.
Measurements(cycles, instructions, cache_misses, llc_occupancy, cpu_usage, mem_bw) ==
    [CYCLES |-> cycles, INSTRUCTIONS |-> instructions, CACHE_MISSES |-> cache_misses,
     LLC_OCCUPANCY |-> llc_occupancy, CPU_USAGE_PER_TASK |-> cpu_usage, MEM_BW |-> mem_bw]

\* `if self.measurements` : None and an empty mapping are falsy.
Truthy(d) == DOMAIN d # {}

\* A sampling that counts the cycles without an LLC occupancy too.
SampleLlcOfEveryCycle(con, measurements) ==
    [con EXCEPT !.total_llc_occu = @ + measurements.LLC_OCCUPANCY,
                !.llc_cnt = @ + 1]

\* Lines 114-116: the LLC occupancy is sampled on every cycle.
SampleLlc(con, measurements) ==
    IF measurements.LLC_OCCUPANCY > 0
    THEN [con EXCEPT !.total_llc_occu = @ + measurements.LLC_OCCUPANCY,
                     !.llc_cnt = @ + 1]
    ELSE con

\* Lines 120-125: the counter deltas of the window, written into self.metrics.
WithDeltas(con, measurements) ==
    [con EXCEPT !.metrics =
        DictSet(DictSet(DictSet(@,
            CYC, RInt(measurements.CYCLES - con.measurements.CYCLES)),
            INST, RInt(measurements.INSTRUCTIONS - con.measurements.INSTRUCTIONS)),
            L3MISS, RInt(measurements.CACHE_MISSES - con.measurements.CACHE_MISSES))]

\* Lines 126-136: the LLC average (the accumulator is reset) and CPI, MPKI.
\* Only evaluated for con.llc_cnt # 0: line 126 raises ZeroDivisionError otherwise.
WithRatios(con) ==
    LET occ == RDiv(RDiv(RInt(con.total_llc_occu), RInt(con.llc_cnt)), RInt(1024))
        m0 == DictSet(con.metrics, L3OCC, occ)
        m1 == IF RIsZero(m0[INST])
              THEN DictSet(DictSet(m0, CPI, RZero), L3MPKI, RZero)
              ELSE DictSet(DictSet(m0,
                       CPI, RDiv(m0[CYC], m0[INST])),
                       L3MPKI, RDiv(RMul(m0[L3MISS], RInt(1000)), m0[INST]))
    IN  [con EXCEPT !.metrics = m1, !.total_llc_occu = 0, !.llc_cnt = 0]

\* Lines 137-148: utilization, memory bandwidth, normalized frequency, and the
\* push onto the history.  Only evaluated for delta_t # 0: line 139 raises
\* ZeroDivisionError otherwise.  x * 100 / (delta_t * 1e9) is evaluated as
\* x / 1e7 / delta_t, the same rational, to keep the integers small.
WithRates(con, measurements, delta_t) ==
    LET util == RDiv(Rat(measurements.CPU_USAGE_PER_TASK
                         - con.measurements.CPU_USAGE_PER_TASK, 10000000),
                     RInt(delta_t))
        mb == RDiv(RDiv(Rat(measurements.MEM_BW - con.measurements.MEM_BW, 1024),
                        RInt(1024)), RInt(delta_t))
        nf == IF RIsZero(util) THEN RZero
              ELSE RDiv(RDiv(RDiv(con.metrics[CYC], RInt(delta_t)), RInt(10000)), util)
    IN  update_metrics_history(
            [con EXCEPT !.metrics = DictSet(DictSet(DictSet(@, UTIL, util), MB, mb), NF, nf)])

\* A reference snapshot that advances on every update.
AdvanceReferenceAlways(con, timestamp, measurements, agg) ==
    [con EXCEPT !.measurements = measurements, !.timestamp = timestamp]

\* Lines 150-152: the reference snapshot advances when there was none, or at a boundary.
AdvanceReference(con, timestamp, measurements, agg) ==
    IF ~Truthy(con.measurements) \/ agg
    THEN [con EXCEPT !.measurements = measurements, !.timestamp = timestamp]
    ELSE con

\* Container.update_measurement: the container after the call, and whether the
\* call raised (ZeroDivisionError); a raise leaves what was written before it.
update_measurement(con, timestamp, measurements, agg) ==
    LET c1 == SampleLlc(con, measurements)
    IN  IF Truthy(c1.measurements) /\ agg
        THEN LET delta_t == timestamp - c1.timestamp
                 c2 == WithDeltas(c1, measurements)
             IN  IF c2.llc_cnt = 0 THEN [con |-> c2, raised |-> TRUE]
                 ELSE IF delta_t = 0 THEN [con |-> WithRatios(c2), raised |-> TRUE]
                 ELSE [con |-> AdvanceReference(
                                   WithRates(WithRatios(c2), measurements, delta_t),
                                   timestamp, measurements, agg),
                       raised |-> FALSE]
        ELSE [con |-> AdvanceReference(c1, timestamp, measurements, agg),
              raised |-> FALSE]

\* A utilization bin of the threshold model.
Bin(util_start, util_end, cpi, mpki, mb) ==
    [util_start |-> RInt(util_start), util_end |-> RInt(util_end),
     cpi |-> RInt(cpi), mpki |-> RInt(mpki), mb |-> RInt(mb)]

\* What a detection call gives: status "ok" with the contended resources and the
\* names of the diagnostic metrics, or "KeyError" (a metric the code reads is not
\* in self.metrics), or "None" (the scan of contention_detect fell off its loop).
Detected(contends, owca_metrics) ==
    [status |-> "ok", contends |-> contends, owca_metrics |-> owca_metrics]

DetectFailed(status) == [status |-> status, contends |-> <<>>, owca_metrics |-> <<>>]

\* An evaluation in which the bandwidth check does not clear the unknown reason.
DetectInBinUnknownKept(con, thresh) ==
    LET metrics == con.metrics
        llc == RGt(metrics[L3MPKI], thresh.mpki)
        mbw == RLt(metrics[MB], thresh.mb)
    IN  IF RGt(metrics[CPI], thresh.cpi)
        THEN Detected((IF llc THEN <<LLC>> ELSE <<>>)
                        \o (IF mbw THEN <<MEMORY_BW>> ELSE <<>>)
                        \o (IF ~llc THEN <<UNKN>> ELSE <<>>),
                      <<CPI, "cpi_threshold">>)
        ELSE Detected(<<>>, <<>>)

\* Container._detect_in_bin
detect_in_bin(con, thresh) ==
    LET metrics == con.metrics
    IN  IF CPI \notin DOMAIN metrics THEN DetectFailed("KeyError")
        ELSE IF RGt(metrics[CPI], thresh.cpi)
        THEN IF L3MPKI \notin DOMAIN metrics \/ MB \notin DOMAIN metrics
             THEN DetectFailed("KeyError")
             ELSE LET llc == RGt(metrics[L3MPKI], thresh.mpki)
                      mbw == RLt(metrics[MB], thresh.mb)
                  IN  Detected(
                        (IF llc THEN <<LLC>> ELSE <<>>)
                          \o (IF mbw THEN <<MEMORY_BW>> ELSE <<>>)
                          \o (IF ~llc /\ ~mbw THEN <<UNKN>> ELSE <<>>),
                        <<CPI, "cpi_threshold">>
                          \o (IF llc THEN <<L3MPKI, "mpki_threshold">> ELSE <<>>)
                          \o (IF mbw THEN <<MB, "mb_threshold">> ELSE <<>>))
        ELSE Detected(<<>>, <<>>)

\* A scan whose top bin is closed: a utilization at or above the last util_end
\* falls off the loop.
RECURSIVE ScanBinsClosedTop(_, _, _)
ScanBinsClosedTop(con, threshs, i) ==
    IF i > Len(threshs) THEN DetectFailed("None")
    ELSE LET thresh == threshs[i]
             util == con.metrics[UTIL]
         IN  IF RLt(util, thresh.util_start)
             THEN IF i = 1 THEN Detected(<<>>, <<>>)
                  ELSE detect_in_bin(con, threshs[i - 1])
             ELSE IF RLt(util, thresh.util_end)
                  THEN detect_in_bin(con, thresh)
                  ELSE ScanBinsClosedTop(con, threshs, i + 1)

\* Container.contention_detect, lines 238-248: the scan from bin i on.
RECURSIVE ScanBins(_, _, _)
ScanBins(con, threshs, i) ==
    IF i > Len(threshs) THEN DetectFailed("None")
    ELSE LET thresh == threshs[i]
             util == con.metrics[UTIL]
         IN  IF RLt(util, thresh.util_start)
             THEN IF i = 1 THEN Detected(<<>>, <<>>)
                  ELSE detect_in_bin(con, threshs[i - 1])
             ELSE IF RLt(util, thresh.util_end) \/ i = Len(threshs)
                  THEN detect_in_bin(con, thresh)
                  ELSE ScanBins(con, threshs, i + 1)

\* Container.contention_detect
contention_detect(con, threshs) ==
    IF Len(threshs) = 0 THEN Detected(<<>>, <<>>)
    ELSE IF UTIL \notin DOMAIN con.metrics THEN DetectFailed("KeyError")
    ELSE ScanBins(con, threshs, 1)

\* Container.tdp_contention_detect; tdp_thresh is EmptyDict when the model has none.
tdp_contention_detect(con, tdp_thresh) ==
    IF ~Truthy(tdp_thresh) THEN Detected(<<>>, <<>>)
    ELSE IF UTIL \notin DOMAIN con.metrics \/ NF \notin DOMAIN con.metrics
    THEN DetectFailed("KeyError")
    ELSE IF RGe(con.metrics[UTIL], tdp_thresh.util) /\ RLt(con.metrics[NF], tdp_thresh.bar)
    THEN Detected(<<TDP>>, <<NF, "nf_threshold", UTIL, "util_threshold">>)
    ELSE Detected(<<>>, <<>>)

\* ------------------------------------------------------------------------
\* prm/allocator.py : ResourceAllocator
\* ------------------------------------------------------------------------

COLLECT_MODE == "collect"
DETECT_MODE == "detect"

\* ResourceAllocator.__init__, lines 51-52: the aggregation ratio.  The quotient
\* of an even division is a whole number, so the counter can be compared with it.
AggCnt(agg_period, action_delay) ==
    IF agg_period % action_delay = 0 THEN agg_period \div action_delay ELSE 1

\* A cycle counter that is never reset.
NextCounterNoReset(counter, agg_cnt) == counter + 1

\* Lines 363-368 of allocate(): the cycle counter after the call.
NextCounter(counter, agg_cnt) ==
    IF counter + 1 = agg_cnt THEN 0 ELSE counter + 1

\* Lines 363-368 of allocate(): whether the call is an aggregation boundary.
IsBoundary(counter, agg_cnt) == counter + 1 = agg_cnt

\* ResourceAllocator._is_be_app
is_be_app(cid, tasks_labels) ==
    "type" \in DOMAIN tasks_labels[cid] /\ tasks_labels[cid]["type"] = "best_efforts"

\* ResourceAllocator._cid_to_app; "" stands for None
cid_to_app(cid, tasks_labels) ==
    IF "application" \in DOMAIN tasks_labels[cid]
       /\ "application_version_name" \in DOMAIN tasks_labels[cid]
    THEN tasks_labels[cid]["application"] \o "." \o tasks_labels[cid]["application_version_name"]
    ELSE ""

\* The ids of an ordered mapping kept as a sequence of records with a cid.
Cids(items) == {items[i].cid : i \in 1..Len(items)}

\* The index of cid in an ordered mapping that holds it.
IndexOf(items, cid) == CHOOSE i \in 1..Len(items) : items[i].cid = cid

\* ResourceAllocator._get_task_resources, line 274: self.bes after the loop
\* (allocate() has cleared the set, lines 370-371).
BesOf(tasks_resources, tasks_labels) ==
    {cid \in tasks_resources : is_be_app(cid, tasks_labels)}

\* An LC set that takes every other task, whatever exclusive_cat is.
LcsOfEveryOther(tasks_resources, tasks_labels, exclusive_cat) ==
    {cid \in tasks_resources : ~is_be_app(cid, tasks_labels)}

\* ResourceAllocator._get_task_resources, lines 269-272: self.lcs after the loop.
LcsOf(tasks_resources, tasks_labels, exclusive_cat) ==
    {cid \in tasks_resources : ~is_be_app(cid, tasks_labels) /\ exclusive_cat}

\* ResourceAllocator._remove_finished_tasks
remove_finished_tasks(container_map, cidset) ==
    SelectSeq(container_map, LAMBDA con : con.cid \in cidset)

\* One call made to a controller or to the resource it wraps.
CtlCall(ctl, op, resource, bes, lcs, flag, hold) ==
    [ctl |-> ctl, op |-> op, resource |-> resource, bes |-> bes, lcs |-> lcs,
     flag |-> flag, hold |-> hold]

BoolStr(b) == IF b THEN "true" ELSE "false"

\* ResourceAllocator._detect_contenders, line 106-114: the delta of one other task.
ResourceDelta(container, resource) ==
    IF resource = LLC THEN get_llcoccupany_delta(container)
    ELSE IF resource = MEMORY_BW THEN get_latest_mbt(container)
    ELSE IF resource = TDP THEN get_freq_delta(container)
    ELSE RZero

\* ResourceAllocator._detect_contenders, lines 103-118: the scan of container_map
\* from entry i on; has_max is false while resource_delta_max is -inf, and
\* contender_id is "" while it is None.
RECURSIVE ScanContenders(_, _, _, _, _, _, _)
ScanContenders(container_map, con, resource, i, has_max, resource_delta_max, contender_id) ==
    IF i > Len(container_map) THEN contender_id
    ELSE LET container == container_map[i]
             delta == ResourceDelta(container, resource)
         IN  IF con.cid = container.cid
             THEN ScanContenders(container_map, con, resource, i + 1,
                                 has_max, resource_delta_max, contender_id)
             ELSE IF RGt(delta, RZero) /\ (~has_max \/ RGt(delta, resource_delta_max))
             THEN ScanContenders(container_map, con, resource, i + 1,
                                 TRUE, delta, container.cid)
             ELSE ScanContenders(container_map, con, resource, i + 1,
                                 has_max, resource_delta_max, contender_id)

\* An attribution whose scan does not skip the task itself.
DetectContendersSelfIncluded(container_map, con, resource) ==
    IF resource = UNKN THEN <<>>
    ELSE LET contender_id == ScanContenders(container_map, [con EXCEPT !.cid = ""],
                                            resource, 1, FALSE, RZero, "")
         IN  IF contender_id # "" THEN <<contender_id>> ELSE <<>>

\* ResourceAllocator._detect_contenders
detect_contenders(container_map, con, resource) ==
    IF resource = UNKN THEN <<>>
    ELSE LET contender_id == ScanContenders(container_map, con, resource, 1,
                                            FALSE, RZero, "")
         IN  IF contender_id # "" THEN <<contender_id>> ELSE <<>>

\* ResourceAllocator._append_anomaly: the anomaly appended.
Anomaly(res, cid, contenders, owca_metrics) ==
    [resource |-> res, contended_task_id |-> cid,
     contending_task_ids |-> contenders, metrics |-> owca_metrics]

\* Lines 146-149 of _detect_one_task: one anomaly per contended resource.
AnomaliesOf(container_map, con, detected) ==
    [k \in 1..Len(detected.contends) |->
        Anomaly(detected.contends[k], con.cid,
                detect_contenders(container_map, con, detected.contends[k]),
                detected.owca_metrics)]

\* The threshold model the analyzer has built (prm.analyze.analyzer.Analyzer,
\* read-only here): per application key the utilization bins and the TDP threshold.
AnalyzerThreshold ==
    "svc.v1" :> [thresh |-> <<Bin(0, 40, 2, 5, 200), Bin(40, 100, 2, 5, 200)>>,
                 tdp |-> [util |-> RInt(40), bar |-> RInt(10)]]

\* Analyzer.get_thresh
get_thresh(app) == AnalyzerThreshold[app].thresh

\* Analyzer.get_tdp_thresh
get_tdp_thresh(app) == AnalyzerThreshold[app].tdp

\* ResourceAllocator._detect_one_task: the anomalies of one task, or raised when
\* a detection call fails (KeyError), or when contention_detect returns None and
\* line 143 cannot unpack it (TypeError).
detect_one_task(container_map, con, app) ==
    IF ~Truthy(con.metrics) THEN [raised |-> FALSE, anomalies |-> <<>>]
    ELSE IF app \notin DOMAIN AnalyzerThreshold THEN [raised |-> FALSE, anomalies |-> <<>>]
    ELSE LET binned == contention_detect(con, get_thresh(app))
             tdp == tdp_contention_detect(con, get_tdp_thresh(app))
         IN  IF binned.status # "ok" \/ tdp.status # "ok"
             THEN [raised |-> TRUE, anomalies |-> <<>>]
             ELSE [raised |-> FALSE,
                   anomalies |-> AnomaliesOf(container_map, con, binned)
                                   \o AnomaliesOf(container_map, con, tdp)]

\* Lines 395-399 of allocate(): detection over container_map from entry i on.
RECURSIVE DetectFrom(_, _, _, _, _)
DetectFrom(container_map, bes, tasks_labels, i, anomaly_list) ==
    IF i > Len(container_map) THEN [raised |-> FALSE, anomalies |-> anomaly_list]
    ELSE LET container == container_map[i]
             app == cid_to_app(container.cid, tasks_labels)
         IN  IF app # "" /\ container.cid \notin bes
             THEN LET one == detect_one_task(container_map, container, app)
                  IN  IF one.raised THEN [raised |-> TRUE, anomalies |-> <<>>]
                      ELSE DetectFrom(container_map, bes, tasks_labels, i + 1,
                                      anomaly_list \o one.anomalies)
             ELSE DetectFrom(container_map, bes, tasks_labels, i + 1, anomaly_list)

\* ResourceAllocator._allocate_resources, lines 339-345: the kinds in the order of
\* the contentions dict (a kind that is not a key yet is added at its end) ...
ContentionKinds(anomalies) ==
    <<LLC, MEMORY_BW, UNKN>>
      \o (IF \E k \in 1..Len(anomalies) : anomalies[k].resource = TDP
          THEN <<TDP>> ELSE <<>>)

\* A flag that is raised by an anomaly of any kind.
ContentionFlagAny(anomalies, kind) == anomalies # <<>>

\* ... and the flag of a kind.
ContentionFlag(anomalies, kind) ==
    \E k \in 1..Len(anomalies) : anomalies[k].resource = kind

\* ResourceAllocator._allocate_resources: the update calls made, in order.
allocate_resources(anomalies, controllers, bes, lcs) ==
    LET kinds == ContentionKinds(anomalies)
        dispatched == SelectSeq(kinds, LAMBDA kind : kind \in DOMAIN controllers)
    IN  [k \in 1..Len(dispatched) |->
            CtlCall(controllers[dispatched[k]], "update", dispatched[k], bes, lcs,
                    BoolStr(ContentionFlag(anomalies, dispatched[k])), "false")]

\* A seeding that gives every new task the full share.
SeedingFullShare(self, cid) ==
    IF self.mode_config # DETECT_MODE THEN <<>>
    ELSE <<CtlCall("cpuc", "set_share", "-", {cid}, {}, "1.0", "-")>>

\* Lines 300-310 of _process_measurements: the seeding calls for a new task.
Seeding(self, cid) ==
    IF self.mode_config # DETECT_MODE THEN <<>>
    ELSE IF cid \in self.bes
    THEN <<CtlCall("cpuc", "set_share", "-", {cid}, {}, "0.0", "-"),
           CtlCall("cpuc", "budgeting", "-", {cid}, {}, "-", "-"),
           CtlCall("l3c", "budgeting", "-", {cid}, {}, "-", "-")>>
         \o (IF self.mbc_enabled
             THEN <<CtlCall("mbc", "budgeting", "-", {cid}, {}, "-", "-")>> ELSE <<>>)
    ELSE <<CtlCall("cpuc", "set_share", "-", {cid}, {}, "1.0", "-")>>
         \o (IF self.exclusive_cat
             THEN <<CtlCall("l3c", "budgeting", "-", {}, {cid}, "-", "-")>> ELSE <<>>)

\* Lines 314-317 read container.util: whether a Container has that attribute
\* (Container.__init__ and update_measurement set none: AttributeError).
HasUtil(container) == "util" \in DOMAIN container

\* The columns _record_metrics reads from the metrics (self.mcols, from the
\* fourth on): the nine derived metrics and Metric.MSPKI.
MSPKI == "MSPKI"

RecordedColumns == MetricKeys \cup {MSPKI}

\* Lines 313-327 of _process_measurements: the rest of an iteration, once
\* update_measurement has been called on the task's container.  st carries
\* container_map, the controller calls made, the utilization sums, and whether an
\* exception has ended the loop.
AccountMeasured(self, st, cid, app, raised, container) ==
    IF raised \/ ~HasUtil(container) THEN [st EXCEPT !.raised = TRUE]
    ELSE [st EXCEPT
             !.lcutil = IF cid \notin self.bes THEN RAdd(@, container.util) ELSE @,
             !.beutil = IF cid \in self.bes THEN RAdd(@, container.util) ELSE @,
             !.sysutil = RAdd(@, container.util),
             !.raised = /\ self.agg /\ Truthy(container.metrics)
                        /\ self.mode_config = COLLECT_MODE /\ app # ""
                        /\ ~(RecordedColumns \subseteq DOMAIN container.metrics)]

\* Line 312 of _process_measurements: the container at idx is updated in place.
UpdateMeasured(self, st, cid, app, cmap, log, idx, um) ==
    AccountMeasured(self,
                    [st EXCEPT !.container_map = [cmap EXCEPT ![idx] = um.con],
                               !.log = log],
                    cid, app, um.raised, um.con)

\* Lines 294-327 of _process_measurements: one iteration of the loop, for the
\* entry (cid, measurements) of tasks_measurements.
ProcessOne(self, st, cid, measurements, tasks_labels, timestamp) ==
    LET known == cid \in Cids(st.container_map)
        cmap == IF known THEN st.container_map
                ELSE Append(st.container_map, Container(cid, DefaultHistoryDepth))
        idx == IndexOf(cmap, cid)
    IN  UpdateMeasured(self, st, cid, cid_to_app(cid, tasks_labels), cmap,
                       IF known THEN st.log ELSE st.log \o Seeding(self, cid),
                       idx,
                       update_measurement(cmap[idx], timestamp, measurements, self.agg))

\* Lines 293-327 of _process_measurements: the loop from entry i on.
RECURSIVE ProcessFrom(_, _, _, _, _, _)
ProcessFrom(self, st, tasks_measurements, tasks_labels, timestamp, i) ==
    IF st.raised \/ i > Len(tasks_measurements) THEN st
    ELSE ProcessFrom(self,
                     ProcessOne(self, st, tasks_measurements[i].cid,
                                tasks_measurements[i].measurements,
                                tasks_labels, timestamp),
                     tasks_measurements, tasks_labels, timestamp, i + 1)

\* ResourceAllocator._get_headroom_metrics, lines 185-189: the ceiling afterwards.
RaisedCeiling(util_max, lcutil) == IF RLt(util_max, lcutil) THEN lcutil ELSE util_max

\* The calls after the loop, were they made on boundary cycles only.
AfterLoopCallsAtBoundary(self, st) ==
    IF self.mode_config # DETECT_MODE \/ ~self.agg THEN <<>>
    ELSE (IF RLt(self.lcutilmax, st.lcutil)
          THEN <<CtlCall("cpuc", "update_max_sys_util", "-", {}, {}, "-", "-")>>
          ELSE <<>>)
         \o (IF self.bes # {}
             THEN <<CtlCall(self.controllers[CPUS], "update", CPUS, self.bes, {},
                            "external", "external")>>
             ELSE <<>>)

\* Lines 329-336 of _process_measurements (detect mode): the calls made after the loop.
AfterLoopCalls(self, st) ==
    IF self.mode_config # DETECT_MODE THEN <<>>
    ELSE (IF RLt(self.lcutilmax, st.lcutil)
          THEN <<CtlCall("cpuc", "update_max_sys_util", "-", {}, {}, "-", "-")>>
          ELSE <<>>)
         \o (IF self.bes # {}
             THEN <<CtlCall(self.controllers[CPUS], "update", CPUS, self.bes, {},
                            "external", "external")>>
             ELSE <<>>)

\* What _process_measurements leaves when its loop has ended in st:
\* container_map and the analyzer's ceiling, the controller calls made, whether
\* the call raised.
Processed(self, st) ==
    [container_map |-> st.container_map,
     raised |-> st.raised,
     log |-> IF st.raised THEN st.log ELSE st.log \o AfterLoopCalls(self, st),
     lcutil |-> st.lcutil,
     lcutilmax |-> IF ~st.raised /\ self.mode_config = DETECT_MODE
                   THEN RaisedCeiling(self.lcutilmax, st.lcutil)
                   ELSE self.lcutilmax]

\* ResourceAllocator._process_measurements
process_measurements(self, tasks_measurements, tasks_labels, timestamp) ==
    Processed(self,
              ProcessFrom(self,
                          [container_map |-> self.container_map, log |-> <<>>,
                           lcutil |-> RZero, beutil |-> RZero, sysutil |-> RZero,
                           raised |-> FALSE],
                          tasks_measurements, tasks_labels, timestamp, 1))

\* Lines 375-385 of allocate() (detect mode): the update_allocs calls.
UpdateAllocsCalls(mode_config, rdt_mb_control_enabled) ==
    IF mode_config # DETECT_MODE THEN <<>>
    ELSE <<CtlCall("cpuc", "update_allocs", "-", {}, {}, "-", "-"),
           CtlCall("l3c", "update_allocs", "-", {}, {}, "-", "-")>>
         \o (IF rdt_mb_control_enabled
             THEN <<CtlCall("mbc", "update_allocs", "-", {}, {}, "-", "-")>>
             ELSE <<>>)

\* Lines 379-385 of allocate(): self.controllers after the platform check.
RoutedControllers(mode_config, controllers, rdt_mb_control_enabled) ==
    IF mode_config = DETECT_MODE /\ ~rdt_mb_control_enabled
    THEN [controllers EXCEPT ![MEMORY_BW] = controllers[CPUS]]
    ELSE controllers

\* A detection that runs on every cycle of the detector.
RunsDetectionEveryCycle(agg, mode_config) == mode_config = DETECT_MODE

\* Lines 393-402 of allocate(): whether detection and dispatch run in this call.
RunsDetection(agg, mode_config) == agg /\ mode_config = DETECT_MODE

\* ------------------------------------------------------------------------
\* The state
\* ------------------------------------------------------------------------

VARIABLES
    agg_period,      \* the constructor's agg_period and
    action_delay,    \*   action_delay (as int() gives them)
    mode_config,     \* self.mode_config
    exclusive_cat,   \* self.exclusive_cat
    agg_cnt,         \* self.agg_cnt
    counter,         \* self.counter
    agg,             \* self.agg
    container_map,   \* self.container_map, in insertion order
    bes,             \* self.bes
    lcs,             \* self.lcs
    mbc_enabled,     \* self.mbc_enabled
    controllers,     \* self.controllers: resource kind -> controller
    lcutilmax,       \* the analyzer's LC utilization ceiling
    calls,           \* the number of allocate() calls made
    now,             \* the timestamp of the last platform snapshot
    outcome,         \* of the last allocate() call: "none", "returned", "raised"
    anomaly_list,    \* the anomalies the last call returned
    ctl_log,         \* the controller calls the last call made, in order
    snapshot,        \* the arguments of the last call
    det,             \* a Container under detection, its bins and the result
    att,             \* a container_map under attribution, its task and the result
    rec              \* a Container over a run of cycles, with what it was given

allocator_vars ==
    <<agg_period, action_delay, mode_config, exclusive_cat, agg_cnt, counter, agg,
      container_map, bes, lcs, mbc_enabled, controllers, lcutilmax, calls, now,
      outcome, anomaly_list, ctl_log, snapshot>>

vars == <<allocator_vars, det, att, rec>>

\* ------------------------------------------------------------------------
\* The snapshots allocate() is called with
\* ------------------------------------------------------------------------

\* The tasks of the host and their labels (tasks_labels).
TasksLabels ==
    ("lc1" :> [type |-> "latency_critical", application |-> "svc",
               application_version_name |-> "v1"])
    @@ ("be1" :> [type |-> "best_efforts", application |-> "batch",
                  application_version_name |-> "v1"])
    @@ ("raw" :> EmptyDict)

Tasks == DOMAIN TasksLabels

\* Raw counter snapshots a task may report: an idle task, and a busy one.
Idle == Measurements(0, 0, 0, 0, 0, 0)
Busy == Measurements(3000000, 1000000, 10000, 2048, 500000000, 104857600)

\* Counters whose deltas from Idle are over the CPI threshold of svc.v1 alone (not
\* over its MPKI threshold, not under its bandwidth threshold) and trip its TDP
\* threshold.
Odd == Measurements(3000000, 1000000, 5000, 2048, 500000000, 209715200)

\* The most allocate() calls of a run.
MaxCalls == 4

\* An entry of the ordered mapping tasks_measurements.
Measured(cid, measurements) == [cid |-> cid, measurements |-> measurements]

\* What the host reports in one cycle: tasks_resources (the ids; the cpus of a
\* task only feed an observability metric), tasks_measurements, and how far the
\* platform timestamp has moved since the last cycle.  The two mappings are
\* arguments of their own: a task may be in one only.
HostSnapshot(step, tasks_resources, tasks_measurements) ==
    [step |-> step, tasks_resources |-> tasks_resources,
     tasks_measurements |-> tasks_measurements]

HostSnapshots ==
    {HostSnapshot(1, {}, <<>>),
     HostSnapshot(1, Tasks, <<>>),
     HostSnapshot(1, Tasks, <<Measured("lc1", Idle)>>),
     HostSnapshot(1, Tasks, <<Measured("lc1", Busy)>>),
     HostSnapshot(0, Tasks, <<Measured("lc1", Busy)>>),
     HostSnapshot(1, Tasks, <<Measured("be1", Busy), Measured("lc1", Busy)>>),
     HostSnapshot(1, {"lc1"}, <<Measured("raw", Busy)>>),
     HostSnapshot(1, Tasks, <<Measured("lc1", Odd)>>),
     HostSnapshot(1, Tasks, <<Measured("raw", Busy)>>)}

\* ------------------------------------------------------------------------
\* ResourceAllocator: construction and allocate()
\* ------------------------------------------------------------------------

\* The configurations the constructor is given: (agg_period, action_delay) as
\* int() gives them, action_delay # 0 (the constructor raises on 0).
Configs == {<<0, 1>>, <<1, 1>>, <<2, 1>>, <<3, 2>>}

\* ResourceAllocator.__init__
AllocatorInit ==
    /\ \E c \in Configs :
          /\ agg_period = c[1]
          /\ action_delay = c[2]
          /\ agg_cnt = AggCnt(c[1], c[2])
    /\ mode_config \in {COLLECT_MODE, DETECT_MODE}
    /\ exclusive_cat \in BOOLEAN
    /\ counter = 0
    /\ agg = FALSE
    /\ container_map = <<>>
    /\ bes = {}
    /\ lcs = {}
    /\ mbc_enabled = TRUE
    /\ controllers = IF mode_config = DETECT_MODE
                     THEN (CPUS :> "cpuc") @@ (LLC :> "l3c") @@ (MEMORY_BW :> "mbc")
                     ELSE EmptyDict
    /\ lcutilmax = RInt(40)
    /\ calls = 0
    /\ now = 0
    /\ outcome = "none"
    /\ anomaly_list = <<>>
    /\ ctl_log = <<>>
    /\ snapshot = [rdt_mb_control_enabled |-> TRUE, tasks_resources |-> {},
                   measured |-> <<>>]

\* Lines 402-407 of allocate(): the flags are dispatched and the call returns,
\* or an exception of the measurement or detection step has ended it.
Returns(timestamp, rdt_mb_control_enabled, tasks_measurements, tasks_resources, self, pm, found) ==
    /\ counter' = NextCounter(counter, agg_cnt)
    /\ agg' = self.agg
    /\ bes' = self.bes
    /\ lcs' = self.lcs
    /\ mbc_enabled' = self.mbc_enabled
    /\ controllers' = self.controllers
    /\ container_map' = pm.container_map
    /\ lcutilmax' = pm.lcutilmax
    /\ outcome' = IF pm.raised \/ found.raised THEN "raised" ELSE "returned"
    /\ anomaly_list' = found.anomalies
    /\ ctl_log' = UpdateAllocsCalls(mode_config, rdt_mb_control_enabled)
                    \o pm.log
                    \o (IF ~pm.raised /\ RunsDetection(self.agg, mode_config)
                           /\ ~found.raised
                        THEN allocate_resources(found.anomalies, self.controllers,
                                                self.bes, self.lcs)
                        ELSE <<>>)
    /\ snapshot' = [rdt_mb_control_enabled |-> rdt_mb_control_enabled,
                    tasks_resources |-> tasks_resources,
                    measured |-> [i \in 1..Len(tasks_measurements) |->
                                     tasks_measurements[i].cid]]
    /\ now' = timestamp
    /\ calls' = calls + 1
    /\ UNCHANGED <<agg_period, action_delay, mode_config, exclusive_cat, agg_cnt>>

\* Lines 391-399 of allocate(): detection, at a boundary of the detector.
Detects(timestamp, rdt_mb_control_enabled, tasks_measurements, tasks_resources, self, pm) ==
    Returns(timestamp, rdt_mb_control_enabled, tasks_measurements, tasks_resources,
            self, pm,
            IF ~pm.raised /\ RunsDetection(self.agg, mode_config)
            THEN DetectFrom(pm.container_map, self.bes, TasksLabels, 1, <<>>)
            ELSE [raised |-> FALSE, anomalies |-> <<>>])

\* Lines 387-390 of allocate(): the measurements are processed.
Measures(timestamp, rdt_mb_control_enabled, tasks_measurements, tasks_resources, self) ==
    Detects(timestamp, rdt_mb_control_enabled, tasks_measurements, tasks_resources,
            self, process_measurements(self, tasks_measurements, TasksLabels, timestamp))

\* ResourceAllocator.allocate(platform, tasks_measurements, tasks_resources,
\* tasks_labels, tasks_allocs), for a platform snapshot with the given timestamp
\* and memory-bandwidth capability.
allocate(timestamp, rdt_mb_control_enabled, tasks_measurements, tasks_resources) ==
    Measures(timestamp, rdt_mb_control_enabled, tasks_measurements, tasks_resources,
             [mode_config |-> mode_config, exclusive_cat |-> exclusive_cat,
              agg |-> IsBoundary(counter, agg_cnt),
              bes |-> BesOf(tasks_resources, TasksLabels),
              lcs |-> LcsOf(tasks_resources, TasksLabels, exclusive_cat),
              mbc_enabled |-> IF mode_config = DETECT_MODE
                              THEN rdt_mb_control_enabled ELSE mbc_enabled,
              controllers |-> RoutedControllers(mode_config, controllers,
                                                rdt_mb_control_enabled),
              lcutilmax |-> lcutilmax,
              container_map |-> remove_finished_tasks(container_map, tasks_resources)])

\* One cycle: the host calls allocate() with a snapshot.
Allocate ==
    /\ calls < MaxCalls
    /\ \E host \in HostSnapshots, rdt_mb_control_enabled \in BOOLEAN :
          allocate(now + host.step, rdt_mb_control_enabled,
                   host.tasks_measurements, host.tasks_resources)
    /\ UNCHANGED <<det, att, rec>>

\* A longer run of allocate() calls over fewer platform snapshots: one task is
\* measured in a call, or none, and the best-effort task may have finished.
MaxContendCalls == 5

ContendSnapshots ==
    {HostSnapshot(1, Tasks, <<Measured("be1", Busy)>>),
     HostSnapshot(1, Tasks, <<Measured("lc1", Idle)>>),
     HostSnapshot(1, Tasks, <<Measured("lc1", Busy)>>),
     HostSnapshot(1, Tasks, <<>>),
     HostSnapshot(1, {"lc1"}, <<>>)}

AllocateContended ==
    /\ calls < MaxContendCalls
    /\ \E host \in ContendSnapshots, rdt_mb_control_enabled \in BOOLEAN :
          allocate(now + host.step, rdt_mb_control_enabled,
                   host.tasks_measurements, host.tasks_resources)
    /\ UNCHANGED <<det, att, rec>>

\* ------------------------------------------------------------------------
\* Detection on its own: a Container with derived metrics, a bin sequence
\* ------------------------------------------------------------------------

\* The most bins of a threshold sequence, the largest bin edge, and the largest
\* CPI, MPKI and bandwidth of a task.
MaxBins == 2
MaxEdge == 3
MaxMetric == 2

\* Metrics as update_measurement leaves them after a whole window.
MetricsOf(util, cpi, mpki, mb, occ, nf) ==
    (CYC :> RZero) @@ (INST :> RZero) @@ (L3MISS :> RZero)
    @@ (L3OCC :> RInt(occ)) @@ (CPI :> RInt(cpi)) @@ (L3MPKI :> RInt(mpki))
    @@ (UTIL :> RInt(util)) @@ (MB :> RInt(mb)) @@ (NF :> RInt(nf))

\* The k-th bin of a sequence with the given edges: its CPI threshold tells the
\* bins apart.
EdgeBin(edges, k) == Bin(edges[2 * k - 1], edges[2 * k], k, 1, 1)

\* The ordered bin sequences: util_start <= util_end <= the next util_start.
BinSequences ==
    UNION {{[k \in 1..n |-> EdgeBin(edges, k)] :
              edges \in {e \in [1..(2 * n) -> 0..MaxEdge] :
                            \A j \in 1..(2 * n - 1) : e[j] <= e[j + 1]}} :
           n \in 1..MaxBins}

DetInit ==
    \E util \in (-1)..(MaxEdge + 1), cpi \in 0..(MaxBins + 1),
       mpki \in 0..MaxMetric, mb \in 0..MaxMetric, threshs \in BinSequences :
       det = [con |-> [Container("lc1", DefaultHistoryDepth) EXCEPT
                          !.metrics = MetricsOf(util, cpi, mpki, mb, 0, 0)],
              threshs |-> threshs, phase |-> "drawn", bin |-> 0,
              result |-> Detected(<<>>, <<>>)]

\* The task is evaluated against one bin of the sequence.
EvaluateInBin ==
    /\ det.phase = "drawn"
    /\ \E k \in 1..Len(det.threshs) :
          det' = [det EXCEPT !.phase = "in_bin", !.bin = k,
                             !.result = detect_in_bin(det.con, det.threshs[k])]
    /\ UNCHANGED <<allocator_vars, att, rec>>

\* The task is evaluated against the sequence.
ContentionDetect ==
    /\ det.phase = "drawn"
    /\ det' = [det EXCEPT !.phase = "scanned",
                          !.result = contention_detect(det.con, det.threshs)]
    /\ UNCHANGED <<allocator_vars, att, rec>>

\* ------------------------------------------------------------------------
\* Attribution on its own: a container_map whose histories are filled
\* ------------------------------------------------------------------------

\* The most windows closed over all tasks, and the largest history_depth.
MaxPushes == 3
MaxDepth == 1

\* The (LLC occupancy, normalized frequency, bandwidth) of a closed window.
WindowValues == {<<0, 0, 0>>, <<1, 2, 1>>, <<2, 1, 2>>}

AttTasks == <<"lc1", "be1", "raw">>

AttInit ==
    \E depth \in 0..MaxDepth :
       att = [container_map |-> [i \in 1..Len(AttTasks) |-> Container(AttTasks[i], depth)],
              pushed |-> [i \in 1..Len(AttTasks) |-> <<>>],
              phase |-> "filling", con |-> 0, resource |-> "-", result |-> <<>>]

\* A window of task i closes: its metrics are replaced and pushed onto its
\* history (line 148 of update_measurement).
CloseWindow ==
    /\ att.phase \in {"filling", "attributed"}
    /\ \E i \in 1..Len(AttTasks), w \in WindowValues :
          /\ Len(att.pushed[1]) + Len(att.pushed[2]) + Len(att.pushed[3]) < MaxPushes
          /\ att' = [att EXCEPT
                        !.container_map[i] = update_metrics_history(
                            [@ EXCEPT !.metrics = MetricsOf(0, 0, 0, w[3], w[1], w[2])]),
                        !.pushed[i] = Append(@, w),
                        !.phase = "filling"]
    /\ UNCHANGED <<allocator_vars, det, rec>>

\* An anomaly of task i is attributed.
DetectContenders ==
    /\ att.phase = "filling"
    /\ \E i \in 1..Len(AttTasks), resource \in {LLC, MEMORY_BW, TDP, UNKN} :
          att' = [att EXCEPT
                     !.phase = "attributed", !.con = i, !.resource = resource,
                     !.result = detect_contenders(att.container_map,
                                                  att.container_map[i], resource)]
    /\ UNCHANGED <<allocator_vars, det, rec>>

\* ------------------------------------------------------------------------
\* A task record on its own: one Container over a run of cycles
\* ------------------------------------------------------------------------

\* The most cycles of a run.
MaxCycles == 5

\* Counter snapshots after Busy: the same instructions and more of everything
\* else, with and without an LLC occupancy reported.
Stalled == Measurements(6000000, 1000000, 20000, 1024, 800000000, 209715200)
Dark == Measurements(6000000, 1000000, 20000, 0, 800000000, 209715200)

RecordMeasurements == {Idle, Busy, Stalled, Dark}

\* The counters of a task are cumulative: they never decrease.
Cumulative(con, measurements) ==
    Truthy(con.measurements) =>
        /\ measurements.CYCLES >= con.measurements.CYCLES
        /\ measurements.INSTRUCTIONS >= con.measurements.INSTRUCTIONS
        /\ measurements.CACHE_MISSES >= con.measurements.CACHE_MISSES
        /\ measurements.CPU_USAGE_PER_TASK >= con.measurements.CPU_USAGE_PER_TASK
        /\ measurements.MEM_BW >= con.measurements.MEM_BW

\* The run starts before the task is seen.  clock is the cycle number, which is
\* the timestamp of the cycle; boundary_before is the cycle of the latest
\* boundary before the last cycle (0: none), and window holds the positive LLC
\* occupancy samples the task has given since then.  boundaries are the boundary
\* cycles so far, first_seen the cycle of the task's first update (0: none),
\* faults the cycles whose update raised, and samples the positive LLC occupancy
\* samples given after the task's latest boundary update with a previous
\* snapshot.
RecInit ==
    \E depth \in 0..MaxDepth :
       rec = [phase |-> "absent", con |-> Container("lc1", depth),
              prev |-> Container("lc1", depth), measurements |-> EmptyDict,
              clock |-> 0, agg |-> FALSE, updated |-> FALSE, raised |-> FALSE,
              faulted |-> FALSE, boundary_before |-> 0, window |-> <<>>,
              boundaries |-> {}, first_seen |-> 0, faults |-> {},
              samples |-> <<>>]

\* The cycle after the last one: its number, the boundary before it, and the
\* samples of its window so far.
NextCycle(is_agg) ==
    [rec EXCEPT !.clock = @ + 1, !.agg = is_agg,
                !.boundary_before = IF rec.agg THEN rec.clock ELSE @,
                !.window = IF rec.agg THEN <<>> ELSE @,
                !.boundaries = IF is_agg THEN @ \cup {rec.clock + 1} ELSE @,
                !.samples = IF rec.phase = "live" /\ rec.updated /\ rec.agg
                                  /\ Truthy(rec.prev.measurements)
                            THEN <<>> ELSE @]

\* What a call of update_measurement leaves: the container and whether it raised.
Updated(cycle, measurements, um) ==
    [cycle EXCEPT !.phase = "live", !.prev = rec.con, !.con = um.con,
                  !.measurements = measurements, !.updated = TRUE,
                  !.raised = um.raised, !.faulted = @ \/ um.raised,
                  !.window = IF measurements.LLC_OCCUPANCY > 0
                             THEN Append(@, measurements.LLC_OCCUPANCY) ELSE @,
                  !.first_seen = IF @ = 0 THEN cycle.clock ELSE @,
                  !.faults = IF um.raised THEN @ \cup {cycle.clock} ELSE @,
                  !.samples = IF measurements.LLC_OCCUPANCY > 0
                              THEN Append(@, measurements.LLC_OCCUPANCY) ELSE @]

\* A cycle goes by before the task is first measured.
Pass ==
    /\ rec.phase = "absent" /\ rec.clock < MaxCycles
    /\ \E is_agg \in BOOLEAN : rec' = [NextCycle(is_agg) EXCEPT !.updated = FALSE]
    /\ UNCHANGED <<allocator_vars, det, att>>

\* A cycle in which the task is measured: line 312 of _process_measurements.
UpdateMeasurement ==
    /\ rec.phase \in {"absent", "live"} /\ rec.clock < MaxCycles
    /\ \E is_agg \in BOOLEAN, measurements \in RecordMeasurements :
          /\ Cumulative(rec.con, measurements)
          /\ rec' = Updated(NextCycle(is_agg), measurements,
                            update_measurement(rec.con, rec.clock + 1,
                                               measurements, is_agg))
    /\ UNCHANGED <<allocator_vars, det, att>>

\* ------------------------------------------------------------------------
\* The specifications
\* ------------------------------------------------------------------------

\* The parts a specification leaves alone.
NoDet == [phase |-> "none"]

NoAtt == [phase |-> "none"]

NoRec == [phase |-> "none"]

AllocatorParked ==
    /\ agg_period = 1 /\ action_delay = 1 /\ agg_cnt = 1
    /\ mode_config = DETECT_MODE /\ exclusive_cat = FALSE
    /\ counter = 0 /\ agg = FALSE /\ container_map = <<>> /\ bes = {} /\ lcs = {}
    /\ mbc_enabled = TRUE /\ controllers = EmptyDict /\ lcutilmax = RZero
    /\ calls = 0 /\ now = 0 /\ outcome = "none" /\ anomaly_list = <<>>
    /\ ctl_log = <<>> /\ snapshot = EmptyDict

\* The allocator over a run of cycles.
Init == AllocatorInit /\ det = NoDet /\ att = NoAtt /\ rec = NoRec

Next == Allocate

Spec == Init /\ [][Next]_vars

\* Detection of one task against bin sequences.
InitDetect == AllocatorParked /\ DetInit /\ att = NoAtt /\ rec = NoRec

NextDetect == EvaluateInBin \/ ContentionDetect

SpecDetect == InitDetect /\ [][NextDetect]_vars

\* Attribution over container maps.
InitAttribute == AllocatorParked /\ AttInit /\ det = NoDet /\ rec = NoRec

NextAttribute == CloseWindow \/ DetectContenders

SpecAttribute == InitAttribute /\ [][NextAttribute]_vars

\* The allocator in detect mode with every cycle a boundary, over a longer run.
InitContend ==
    /\ Init
    /\ mode_config = DETECT_MODE /\ agg_period = 1 /\ action_delay = 1

NextContend == AllocateContended

SpecContend == InitContend /\ [][NextContend]_vars

\* One task record over a run of cycles.
InitRecord == AllocatorParked /\ RecInit /\ det = NoDet /\ att = NoAtt

NextRecord == Pass \/ UpdateMeasurement

SpecRecord == InitRecord /\ [][NextRecord]_vars

\* ------------------------------------------------------------------------
\* Properties of the allocator (specification Spec)
\* ------------------------------------------------------------------------

\* The controller calls of the last allocate() call.
LogEntries == {ctl_log[i] : i \in 1..Len(ctl_log)}

\* The contention-flag updates among them (_allocate_resources).
FlagUpdates ==
    {e \in LogEntries : e.op = "update" /\ e.resource \in {LLC, MEMORY_BW, UNKN, TDP}}

\* The ids with a record in the store.
Recorded == Cids(container_map)

\* The ids of the last call's measurement mapping.
MeasuredIds == {snapshot.measured[i] : i \in 1..Len(snapshot.measured)}

\* The ratio agg_period / action_delay when the division is even, 1 otherwise.
Ratio ==
    IF \E q \in 0..agg_period : q * action_delay = agg_period
    THEN CHOOSE q \in 0..agg_period : q * action_delay = agg_period
    ELSE 1

\* C1: with positive agg_period and action_delay, the k-th allocate() call is an
\* aggregation boundary exactly when k is a multiple of agg_period/action_delay
\* (action_delay dividing agg_period) and every call is one otherwise; the cycle
\* counter is 0 after a boundary call and within 0..ratio-1 after every call.
C1_BoundaryEveryRatioCalls ==
    (agg_period >= 1 /\ action_delay >= 1 /\ calls >= 1) =>
        /\ agg <=> (calls % Ratio = 0)
        /\ agg => counter = 0
        /\ counter \in 0..(Ratio - 1)

\* The second boundary of a run with ratio 2 is the fourth call.
C1_Witness ==
    agg_period = 2 /\ action_delay = 1 /\ calls = 4 /\ agg /\ counter = 0

\* C2: on a pass-through cycle the returned anomaly list is empty and no
\* contention flag (LLC, MEMORY_BW, UNKNOWN) is dispatched to any controller,
\* whatever the tasks' metrics are.
C2_NoDetectionOffBoundary ==
    (calls >= 1 /\ ~agg) => (anomaly_list = <<>> /\ FlagUpdates = {})

\* A pass-through cycle of the detector that returns while the metrics of a task
\* in the store are those of a contended task.
C2_Witness ==
    /\ calls >= 1 /\ ~agg /\ outcome = "returned" /\ mode_config = DETECT_MODE
    /\ DetectFrom(container_map, bes, TasksLabels, 1, <<>>).anomalies # <<>>

\* The tasks of the last snapshot whose label type is best_efforts.
LabelledBestEfforts ==
    {t \in snapshot.tasks_resources :
        "type" \in DOMAIN TasksLabels[t] /\ TasksLabels[t]["type"] = "best_efforts"}

\* C3 as stated: after the partition step the BE set is the best_efforts tasks of
\* this cycle's snapshot and the LC set is all its other tasks.
C3_PartitionAsStated ==
    calls >= 1 =>
        /\ bes = LabelledBestEfforts
        /\ lcs = snapshot.tasks_resources \ LabelledBestEfforts

\* C3, amended: the BE set is the best_efforts tasks of this cycle's snapshot;
\* the LC set is all its other tasks when exclusive_cat is set, and is empty
\* otherwise; neither holds an id that is not in this cycle's snapshot.
C3_PartitionRebuilt ==
    calls >= 1 =>
        /\ bes = LabelledBestEfforts
        /\ lcs = IF exclusive_cat
                 THEN snapshot.tasks_resources \ LabelledBestEfforts ELSE {}
        /\ bes \cup lcs \subseteq snapshot.tasks_resources

\* A cycle whose snapshot has one task only, after a cycle with all tasks, in
\* exclusive mode: the sets hold nothing of the earlier cycle.
C3_Witness ==
    /\ exclusive_cat /\ calls >= 2 /\ snapshot.tasks_resources = {"lc1"}
    /\ lcs = {"lc1"} /\ bes = {}
    /\ "raw" \in Recorded

\* C4 as stated, for the snapshots whose measured tasks all are in the
\* resource-assignment mapping: after a call whose measurement snapshot holds a
\* task the store has a record of it, and after a call whose resource-assignment
\* mapping does not hold a task the store has none.
C4_RecordWhileLive ==
    (calls >= 1 /\ MeasuredIds \subseteq snapshot.tasks_resources) =>
        /\ MeasuredIds \subseteq Recorded
        /\ Recorded \subseteq snapshot.tasks_resources

\* C5 as stated, for aggregation boundaries: in detect mode, with memory-bandwidth
\* control reported unavailable, the MEMORY_BW flag is passed to the CPU
\* controller's update and the MEMORY_BW controller is not called.
C5_MemoryBwFlagToCpu ==
    (calls >= 1 /\ agg /\ mode_config = DETECT_MODE
       /\ ~snapshot.rdt_mb_control_enabled) =>
        /\ \E e \in FlagUpdates : e.resource = MEMORY_BW /\ e.ctl = "cpuc"
        /\ \A e \in LogEntries : e.ctl # "mbc"

\* C6 as stated: every allocate() call completes and returns.
C6_EveryCallReturns == outcome # "raised"

\* The records of the LC tasks that have derived metrics and whose application
\* has a TDP threshold.
TdpJudged ==
    {i \in 1..Len(container_map) :
        /\ container_map[i].cid \notin bes
        /\ cid_to_app(container_map[i].cid, TasksLabels) \in DOMAIN AnalyzerThreshold
        /\ {UTIL, NF} \subseteq DOMAIN container_map[i].metrics}

\* Utilization at or over tdp.util with a normalized frequency under tdp.bar.
TdpTripped(con) ==
    LET tdp == AnalyzerThreshold[cid_to_app(con.cid, TasksLabels)].tdp
    IN  /\ con.metrics[UTIL].n * tdp.util.d >= tdp.util.n * con.metrics[UTIL].d
        /\ con.metrics[NF].n * tdp.bar.d < tdp.bar.n * con.metrics[NF].d

\* The anomalies of a resource kind the last call returned for a task.
AnomaliesFor(kind, cid) ==
    {k \in 1..Len(anomaly_list) :
        anomaly_list[k].resource = kind /\ anomaly_list[k].contended_task_id = cid}

\* C14 as stated: at an aggregation boundary of the detector the anomaly list
\* has exactly one TDP anomaly for every LC task with derived metrics and a TDP
\* threshold whose utilization is >= tdp.util and normalized frequency < tdp.bar,
\* and none for the others.
C14_TdpOncePerTask ==
    (calls >= 1 /\ agg /\ mode_config = DETECT_MODE) =>
        \A i \in TdpJudged :
            Cardinality(AnomaliesFor(TDP, container_map[i].cid))
                = IF TdpTripped(container_map[i]) THEN 1 ELSE 0

\* The resource kinds of the anomalies the last call returned.
AnomalyKinds == {anomaly_list[k].resource : k \in 1..Len(anomaly_list)}

\* C15: an anomaly of a kind without a registered controller (TDP, UNKNOWN) is in
\* the returned anomaly list, causes no update call for its kind, and leaves the
\* flag of every other kind what that kind's own anomalies make it.
C15_UnregisteredKindDropped ==
    calls >= 1 =>
        \A e \in FlagUpdates :
            /\ e.resource \notin {TDP, UNKN}
            /\ e.flag = BoolStr(e.resource \in AnomalyKinds)

\* A cycle that returns UNKNOWN and TDP anomalies only: the LLC and MEMORY_BW
\* flags are dispatched as false.
C15_Witness ==
    /\ outcome = "returned" /\ AnomalyKinds = {UNKN, TDP}
    /\ {e.resource : e \in FlagUpdates} = {LLC, MEMORY_BW}
    /\ \A e \in FlagUpdates : e.flag = "false"

\* The tasks that are the contended task of an anomaly the last call returned.
ContendedTasks ==
    {anomaly_list[k].contended_task_id : k \in 1..Len(anomaly_list)}

\* C16: a live task without the application labels ("raw") never makes the cycle
\* fail and has a record after every cycle that measures it; neither it nor a
\* best-effort task is ever the contended task of an anomaly.
C16_UnlabelledTaskTolerated ==
    calls >= 1 =>
        /\ ("raw" \in snapshot.tasks_resources /\ "raw" \in MeasuredIds) =>
               (outcome = "returned" /\ "raw" \in Recorded)
        /\ ContendedTasks \cap ({"raw"} \cup bes) = {}

\* The update calls the last call made to a controller.
UpdateCalls == {e \in LogEntries : e.op = "update"}

\* C19 as stated: on a pass-through cycle allocate() makes no update call to
\* any controller; the CPU margin update is issued on boundary cycles only.
C19_NoUpdateOffBoundary ==
    (calls >= 1 /\ ~agg) => UpdateCalls = {}

\* C19 as amended: on a pass-through cycle the only update call is the CPU
\* margin update, with this cycle's BE set and no LC set; it is made on every
\* cycle of detect mode that has a BE task and processes its measurements to
\* the end.
C19_OnlyMarginUpdateOffBoundary ==
    (calls >= 1 /\ ~agg) =>
        /\ \A e \in UpdateCalls :
              e = CtlCall(controllers[CPUS], "update", CPUS, bes, {},
                          "external", "external")
        /\ (UpdateCalls # {}) <=>
              (outcome = "returned" /\ mode_config = DETECT_MODE /\ bes # {})

\* A pass-through cycle of detect mode that makes the CPU margin update.
C19_Witness ==
    /\ calls >= 1 /\ ~agg /\ outcome = "returned"
    /\ \E e \in UpdateCalls : e.resource = CPUS /\ e.bes = bes /\ bes # {}

\* The places in the last call's log of the contention-flag updates of a kind.
FlagUpdatesOf(kind) ==
    {i \in 1..Len(ctl_log) : ctl_log[i].op = "update" /\ ctl_log[i].resource = kind
                               /\ ctl_log[i].flag # "external"}

\* C20: on every boundary cycle of detect mode each kind with a registered
\* controller (LLC, MEMORY_BW) gets exactly one update call, with this cycle's
\* BE set and LC set, hold false, and a flag that is true exactly when this
\* cycle's anomaly list has an anomaly of the kind.
C20_FlagPerRegisteredKind ==
    (calls >= 1 /\ agg /\ mode_config = DETECT_MODE) =>
        \A kind \in {LLC, MEMORY_BW} :
            /\ Cardinality(FlagUpdatesOf(kind)) = 1
            /\ \A i \in FlagUpdatesOf(kind) :
                  /\ ctl_log[i].bes = bes /\ ctl_log[i].lcs = lcs
                  /\ ctl_log[i].hold = "false"
                  /\ ctl_log[i].flag = BoolStr(kind \in AnomalyKinds)

\* The places in a log of the CPU share seedings of a task.
ShareSeedings(log, cid) ==
    {i \in 1..Len(log) : log[i].op = "set_share" /\ log[i].bes = {cid}}

C22_RoutingFollowsCapability ==
    (calls >= 1 /\ agg /\ mode_config = DETECT_MODE /\ outcome = "returned"
       /\ snapshot.rdt_mb_control_enabled) =>
        /\ FlagUpdatesOf(MEMORY_BW) # {}
        /\ \A i \in FlagUpdatesOf(MEMORY_BW) : ctl_log[i].ctl = "mbc"

\* C23: in every configuration the constructor accepts the cycle counter can
\* still reach the aggregation ratio: it has just been reset, or is below the
\* ratio (the counter only grows by one a call, and is reset only when it
\* equals the ratio, so a counter past the ratio never meets a boundary again).
C23_BoundaryAlwaysAhead ==
    counter = 0 \/ counter < agg_cnt

\* The records of the LC tasks the last call measured at a boundary and whose
\* utilization it derived.
LcObserved ==
    {i \in DOMAIN container_map :
        /\ container_map[i].cid \in MeasuredIds /\ container_map[i].cid \notin bes
        /\ container_map[i].timestamp = now
        /\ UTIL \in DOMAIN container_map[i].metrics}

\* C24: in detect mode the stored LC utilization ceiling is, after every call,
\* at least the LC utilization observed in that call, and so at least the
\* utilization of each LC task the call measured.
C24_CeilingCoversObserved ==
    (calls >= 1 /\ mode_config = DETECT_MODE /\ agg) =>
        \A i \in LcObserved : RLe(container_map[i].metrics[UTIL], lcutilmax)

\* ------------------------------------------------------------------------
\* Properties of detection (specification SpecDetect)
\* ------------------------------------------------------------------------

\* The resource kinds of the result of the evaluation.
DetKinds == {det.result.contends[i] : i \in 1..Len(det.result.contends)}

\* C7: evaluated against a bin, a task with CPI <= bin.cpi gives no anomaly and no
\* diagnostic metric; with CPI > bin.cpi the result has LLC exactly when
\* MPKI > bin.mpki, MEMORY_BW exactly when bandwidth < bin.mb, and UNKNOWN exactly
\* when neither fired, so it is never empty and UNKNOWN never comes with another.
C7_EvaluationInBin ==
    det.phase = "in_bin" =>
        LET metrics == det.con.metrics
            bin == det.threshs[det.bin]
            cpi_over == metrics[CPI].n > bin.cpi.n
            mpki_over == metrics[L3MPKI].n > bin.mpki.n
            mb_under == metrics[MB].n < bin.mb.n
        IN  /\ det.result.status = "ok"
            /\ ~cpi_over =>
                  det.result.contends = <<>> /\ det.result.owca_metrics = <<>>
            /\ cpi_over =>
                  /\ LLC \in DetKinds <=> mpki_over
                  /\ MEMORY_BW \in DetKinds <=> mb_under
                  /\ UNKN \in DetKinds <=> (~mpki_over /\ ~mb_under)
                  /\ DetKinds # {}
                  /\ DetKinds \subseteq {LLC, MEMORY_BW, UNKN}
                  /\ UNKN \in DetKinds => DetKinds = {UNKN}
                  /\ Len(det.result.contends) = Cardinality(DetKinds)

\* CPI and MPKI above their thresholds, bandwidth not below its own: LLC alone.
C7_Witness ==
    /\ det.phase = "in_bin"
    /\ det.con.metrics[CPI].n > det.threshs[det.bin].cpi.n
    /\ det.con.metrics[L3MPKI].n > det.threshs[det.bin].mpki.n
    /\ det.con.metrics[MB].n >= det.threshs[det.bin].mb.n
    /\ det.result.contends = <<LLC>>

\* The bin a utilization u selects in a non-empty ordered bin sequence.
SelectedBin(threshs, u) ==
    LET n == Len(threshs)
        holding == {k \in 1..n : threshs[k].util_start.n <= u /\ u < threshs[k].util_end.n}
        started == {k \in 1..n : threshs[k].util_start.n <= u}
    IN  IF u >= threshs[n].util_end.n THEN n
        ELSE IF holding # {} THEN CHOOSE k \in holding : TRUE
        ELSE CHOOSE k \in started : \A j \in started : j <= k

\* C8: over a non-empty ordered bin sequence the scan always yields a result: no
\* anomaly when the utilization is below the first util_start, whatever the CPI;
\* else the evaluation against the last bin when it is at or above the last
\* util_end, against the bin that holds it, or, between bins, against the last
\* bin that starts at or below it.
C8_BinSelection ==
    det.phase = "scanned" =>
        LET u == det.con.metrics[UTIL].n
        IN  /\ det.result.status = "ok"
            /\ u < det.threshs[1].util_start.n =>
                  det.result = Detected(<<>>, <<>>)
            /\ u >= det.threshs[1].util_start.n =>
                  det.result = detect_in_bin(det.con, det.threshs[SelectedBin(det.threshs, u)])

\* A utilization between two bins, with a CPI that only the lower bin flags.
C8_Witness ==
    /\ det.phase = "scanned" /\ Len(det.threshs) = 2
    /\ det.threshs[1].util_end.n <= det.con.metrics[UTIL].n
    /\ det.con.metrics[UTIL].n < det.threshs[2].util_start.n
    /\ det.con.metrics[CPI].n = 2
    /\ det.result.contends # <<>>

\* ------------------------------------------------------------------------
\* Properties of attribution and of the history (specification SpecAttribute)
\* ------------------------------------------------------------------------

\* The delta of record i for the resource kind being attributed.
AttDelta(i) == ResourceDelta(att.container_map[i], att.resource)

\* The other records whose delta is positive.
AttPositive ==
    {i \in 1..Len(att.container_map) : i # att.con /\ RGt(AttDelta(i), RZero)}

\* The record with the largest positive delta, the first of them in scan order.
AttLargest ==
    CHOOSE i \in AttPositive :
        \A j \in AttPositive :
            RLt(AttDelta(j), AttDelta(i)) \/ (~RLt(AttDelta(i), AttDelta(j)) /\ i <= j)

\* C9: attribution returns at most one id, never the task itself and never a
\* task whose delta is <= 0; when another record has a positive delta it returns
\* the one with the largest delta, the first in scan order on ties; for UNKNOWN
\* it returns empty.
C9_Attribution ==
    att.phase = "attributed" =>
        /\ Len(att.result) <= 1
        /\ \A k \in 1..Len(att.result) :
              /\ att.result[k] # att.container_map[att.con].cid
              /\ \E i \in AttPositive : att.container_map[i].cid = att.result[k]
        /\ att.resource = UNKN => att.result = <<>>
        /\ (att.resource # UNKN /\ AttPositive # {}) =>
              att.result = <<att.container_map[AttLargest].cid>>
        /\ (att.resource # UNKN /\ AttPositive = {}) => att.result = <<>>

\* Two other records tie on the largest LLC delta: the first scanned is returned.
C9_Witness ==
    /\ att.phase = "attributed" /\ att.resource = LLC /\ att.con = 3
    /\ RGt(AttDelta(1), RZero)
    /\ ~RLt(AttDelta(1), AttDelta(2)) /\ ~RLt(AttDelta(2), AttDelta(1))
    /\ att.result = <<att.container_map[1].cid>>

\* The value a closed window has in a column of the history.
WindowValue(w, columnname) == IF columnname = L3OCC THEN w[1] ELSE w[2]

\* The windows of task i that its history still holds: the latest pushes, as
\* many as the history has entries.
HeldWindows(i) ==
    LET pushed == att.pushed[i]
        length == Len(att.container_map[i].metrics_history)
    IN  SubSeq(pushed, Len(pushed) - length + 1, Len(pushed))

RECURSIVE SumOfWindows(_, _, _)
SumOfWindows(windows, columnname, upto) ==
    IF upto = 0 THEN 0
    ELSE SumOfWindows(windows, columnname, upto - 1)
           + WindowValue(windows[upto], columnname)

BoundaryUpdate ==
    rec.phase = "live" /\ rec.updated /\ rec.agg /\ Truthy(rec.prev.measurements)

\* The last cycle updated the record off a boundary, or without a previous snapshot.
PlainUpdate ==
    rec.phase = "live" /\ rec.updated /\ (~rec.agg \/ ~Truthy(rec.prev.measurements))

\* Bins whose CPI threshold is positive.
PositiveBins == {Bin(0, 100, cpi, 0, 1000) : cpi \in 1..2}

\* C11 as stated: after a boundary update whose window has an instructions-delta
\* of 0, the record's CPI and MPKI are exactly 0, whatever the other counters
\* are, and detection against a bin with cpi > 0 gives no anomaly.
C11_ZeroInstructionsDelta ==
    (BoundaryUpdate
       /\ rec.measurements.INSTRUCTIONS = rec.prev.measurements.INSTRUCTIONS) =>
        /\ CPI \in DOMAIN rec.con.metrics /\ rec.con.metrics[CPI].n = 0
        /\ L3MPKI \in DOMAIN rec.con.metrics /\ rec.con.metrics[L3MPKI].n = 0
        /\ \A bin \in PositiveBins : detect_in_bin(rec.con, bin) = Detected(<<>>, <<>>)

\* The history a push of the current metrics onto the previous history gives,
\* for a capacity of history depth + 1.
PushedHistory ==
    LET before == rec.prev.metrics_history
    IN  IF Len(before) < rec.prev.history_depth
        THEN Append(before, rec.con.metrics)
        ELSE Append(SubSeq(before, 2, Len(before)), rec.con.metrics)

\* C12 as stated: the history holds at most d + 1 entries; it takes exactly one
\* entry per boundary update that has a previous snapshot, the oldest being
\* evicted when it is full, and none otherwise.
C12_HistoryCapacity ==
    rec.phase = "live" =>
        /\ Len(rec.con.metrics_history) <= rec.con.history_depth
        /\ BoundaryUpdate => rec.con.metrics_history = PushedHistory
        /\ PlainUpdate => rec.con.metrics_history = rec.prev.metrics_history

\* C13: an update off a boundary, or at a boundary without a previous raw
\* snapshot, leaves the metrics and the history as they were; only the LLC
\* accumulator and count change, and the reference snapshot and timestamp when
\* the record had none.
C13_FrameOfPlainUpdate ==
    PlainUpdate =>
        /\ ~rec.raised
        /\ rec.con.metrics = rec.prev.metrics
        /\ rec.con.metrics_history = rec.prev.metrics_history
        /\ rec.con.cid = rec.prev.cid
        /\ rec.con.history_depth = rec.prev.history_depth
        /\ Truthy(rec.prev.measurements) =>
              /\ rec.con.measurements = rec.prev.measurements
              /\ rec.con.timestamp = rec.prev.timestamp
        /\ ~Truthy(rec.prev.measurements) =>
              /\ rec.con.measurements = rec.measurements
              /\ rec.con.timestamp = rec.clock

\* An update off a boundary of a record that has metrics and a history, with a
\* new LLC sample and new counters.
C13_Witness ==
    /\ PlainUpdate /\ ~rec.agg
    /\ Truthy(rec.con.metrics) /\ rec.con.metrics_history # <<>>
    /\ rec.con.total_llc_occu # rec.prev.total_llc_occu
    /\ rec.measurements # rec.con.measurements

\* C17 as stated: whenever derived metrics are computed at a boundary, the
\* reference snapshot they are differenced against was taken at the boundary
\* immediately before, whatever the cycle the task was first seen on.
C17_WholeWindowReference ==
    BoundaryUpdate => rec.prev.timestamp = rec.boundary_before

\* C17 as amended: the reference snapshot of a boundary update was taken at an
\* earlier boundary or at the cycle the task was first seen, never at a later
\* pass-through cycle, and at the boundary immediately before when the task was
\* updated at that boundary and the update did not raise.
C17_ReferenceAtBoundaryOrFirstSight ==
    BoundaryUpdate =>
        /\ rec.prev.timestamp < rec.clock
        /\ rec.prev.timestamp \in (rec.boundaries \cup {rec.first_seen})
        /\ (rec.first_seen <= rec.boundary_before
              /\ rec.boundary_before \notin rec.faults) =>
               rec.prev.timestamp = rec.boundary_before

\* A boundary update of a task first seen on a pass-through cycle after a
\* boundary: its reference is the first sight, inside the window.
C17_Witness ==
    /\ BoundaryUpdate /\ rec.boundary_before > 0
    /\ rec.prev.timestamp = rec.first_seen
    /\ rec.first_seen > rec.boundary_before

\* The sum of a sequence of samples.
RECURSIVE SumOfSamples(_)
SumOfSamples(samples) ==
    IF samples = <<>> THEN 0 ELSE Head(samples) + SumOfSamples(Tail(samples))

\* The mean of a sequence of samples, in units of 1024.
MeanOfSamples(samples) ==
    RDiv(RDiv(RInt(SumOfSamples(samples)), RInt(Len(samples))), RInt(1024))

\* Two rationals are the same number.
SameNumber(a, b) == a.n * b.d = b.n * a.d

\* C18 as stated: the LLC average of a boundary update is the mean of the
\* positive samples given after the previous boundary, up to and including this
\* one, over 1024; the accumulator and the count are 0 right after, and the
\* count never exceeds the number of cycles since the previous boundary.
C18_AverageOfOneWindow ==
    rec.phase = "live" =>
        /\ BoundaryUpdate =>
              /\ rec.con.total_llc_occu = 0 /\ rec.con.llc_cnt = 0
              /\ rec.window # <<>> =>
                    /\ L3OCC \in DOMAIN rec.con.metrics
                    /\ SameNumber(rec.con.metrics[L3OCC], MeanOfSamples(rec.window))
        /\ rec.con.llc_cnt <= rec.clock - rec.boundary_before

\* C18 as amended: the accumulator and the count hold the positive samples given
\* after the task's latest boundary update with a previous snapshot; the LLC
\* average such an update computes is their mean over 1024, and both are 0 right
\* after it.
C18_AverageSinceLastAverage ==
    rec.phase = "live" =>
        /\ BoundaryUpdate =>
              /\ rec.con.total_llc_occu = 0 /\ rec.con.llc_cnt = 0
              /\ rec.samples # <<>> =>
                    /\ L3OCC \in DOMAIN rec.con.metrics
                    /\ SameNumber(rec.con.metrics[L3OCC], MeanOfSamples(rec.samples))
        /\ ~BoundaryUpdate =>
              /\ rec.con.total_llc_occu = SumOfSamples(rec.samples)
              /\ rec.con.llc_cnt = Len(rec.samples)

\* A boundary update whose average takes in a sample of the boundary the task
\* was first seen at: more samples than the cycles since that boundary.
C18_Witness ==
    /\ BoundaryUpdate /\ ~rec.raised
    /\ rec.first_seen = rec.boundary_before
    /\ Len(rec.samples) > rec.clock - rec.boundary_before
    /\ SameNumber(rec.con.metrics[L3OCC], MeanOfSamples(rec.samples))

\* ------------------------------------------------------------------------
\* Properties of contenders (specification SpecContend)
\* ------------------------------------------------------------------------

\* The task ids of the last call's snapshot.
SnapshotTasks == snapshot.tasks_resources \cup MeasuredIds

\* C25: every returned anomaly names at most one contending task; a contender
\* differs from the contended task, has a record in the store at the end of the
\* call and is part of the call's snapshot, so that a task removed in this or an
\* earlier cycle is never a contender.
C25_ContenderIsLiveOther ==
    \A k \in 1..Len(anomaly_list) :
        LET contenders == anomaly_list[k].contending_task_ids
        IN  /\ Len(contenders) <= 1
            /\ \A j \in 1..Len(contenders) :
                  /\ contenders[j] # anomaly_list[k].contended_task_id
                  /\ contenders[j] \in Recorded
                  /\ contenders[j] \in SnapshotTasks

\* A call that returns an anomaly of the LC task with the best-effort task as
\* its contender.
C25_Witness ==
    /\ outcome = "returned"
    /\ \E k \in 1..Len(anomaly_list) :
          /\ anomaly_list[k].contended_task_id = "lc1"
          /\ anomaly_list[k].contending_task_ids = <<"be1">>

====
